---- MODULE Spec2Model ----
(***************************************************************************)
(* Weather CSV pipeline (cem5113/tahminn): workflows/full_pipeline.py.     *)
(* One run of the command line entry point run_cli, the retrying HTTP      *)
(* session it fetches through, and the two output files yarin.csv and      *)
(* week.csv.                                                               *)
(***************************************************************************)
EXTENDS Integers, Sequences, FiniteSets, TLC

VARIABLES
    pc,       \* position of the run in run_cli
    env,      \* process environment and command line of the run
    args,     \* the argparse namespace parse_args returned
    now,      \* the instant datetime.now() reads (UTC date and hour)
    window,   \* (tmrw, wend) returned by compute_dates
    retry,    \* urllib3 Retry object of the sess.get call in progress
    reqs,     \* every HTTP request put on the wire by this run, in order
    df_t,     \* DataFrame of the tomorrow fetch
    df_w,     \* DataFrame of the week fetch
    files,    \* <outdir>/yarin.csv and <outdir>/week.csv
    files0,   \* the two files as they were when the run started
    exit,     \* how the run ended: exit code and the exception raised
    server,   \* the mocked endpoint: the answers it may give
    resps,    \* the responses sess.get returned to fetch_days_csv, in order
    cache,    \* the st.cache_data store of _run_fetch_cached
    clock     \* seconds since the Streamlit session started

vars == <<pc, env, args, now, window, retry, reqs, df_t, df_w, files, files0, exit,
          server, resps, cache, clock>>

----------------------------------------------------------------------------
(* Bounds of the model.                                                    *)

\* most data rows the mocked endpoint puts in one response body
MaxRows == 8

\* characters by which a mocked error body exceeds the preview length
MaxOverflow == 1

----------------------------------------------------------------------------
(* Calendar arithmetic of datetime.date (proleptic Gregorian ordinals).    *)

Range(s) == {s[i] : i \in 1..Len(s)}

Min(a, b) == IF a <= b THEN a ELSE b

IsLeap(y) == (y % 4 = 0) /\ ((y % 100 /= 0) \/ (y % 400 = 0))

DaysInMonth(y, m) ==
    IF m = 2 THEN (IF IsLeap(y) THEN 29 ELSE 28)
    ELSE IF m \in {4, 6, 9, 11} THEN 30 ELSE 31

RECURSIVE DaysBeforeMonth(_, _)
DaysBeforeMonth(y, m) ==
    IF m = 1 THEN 0 ELSE DaysBeforeMonth(y, m - 1) + DaysInMonth(y, m - 1)

DaysBeforeYear(y) ==
    (y - 1) * 365 + ((y - 1) \div 4) - ((y - 1) \div 100) + ((y - 1) \div 400)

Date(y, m, d) == [y |-> y, m |-> m, d |-> d]

\* date.toordinal(): 0001-01-01 is day 1
toordinal(dt) == DaysBeforeYear(dt.y) + DaysBeforeMonth(dt.y, dt.m) + dt.d

\* date.fromordinal(n): the year and month whose span of ordinals holds n
fromordinal(n) ==
    LET y == CHOOSE yy \in (n \div 366)..((n \div 365) + 1) :
                 DaysBeforeYear(yy) < n /\ n <= DaysBeforeYear(yy + 1)
        r == n - DaysBeforeYear(y)
        m == CHOOSE mm \in 1..12 :
                 DaysBeforeMonth(y, mm) < r
                 /\ r <= DaysBeforeMonth(y, mm) + DaysInMonth(y, mm)
    IN  Date(y, m, r - DaysBeforeMonth(y, m))

\* date + timedelta(days=n)
DateAdd(dt, n) == fromordinal(toordinal(dt) + n)

\* date.weekday(): Monday = 0 .. Sunday = 6
weekday(dt) == (toordinal(dt) + 6) % 7

TR_DAYS ==
    [i \in 0..6 |->
        CASE i = 0 -> "Pazartesi" [] i = 1 -> "Sali" [] i = 2 -> "Carsamba"
          [] i = 3 -> "Persembe" [] i = 4 -> "Cuma" [] i = 5 -> "Cumartesi"
          [] OTHER -> "Pazar"]

----------------------------------------------------------------------------
(* Time zones (zoneinfo) and compute_dates.                                *)

\* an instant: the UTC calendar date and the UTC hour of the day
Instant(dt, h) == [date |-> dt, hour |-> h]

HoursOf(inst) == toordinal(inst.date) * 24 + inst.hour

KnownZones == {"America/Los_Angeles", "Asia/Tokyo", "UTC"}

\* ZoneInfo(tz).utcoffset(inst) in hours, for instants of the year 2024:
\* Pacific daylight time runs from 2024-03-10T10:00Z to 2024-11-03T09:00Z.
ZoneOffset(tz, inst) ==
    CASE tz = "America/Los_Angeles" ->
            IF /\ HoursOf(inst) >= HoursOf(Instant(Date(2024, 3, 10), 10))
               /\ HoursOf(inst) <  HoursOf(Instant(Date(2024, 11, 3), 9))
            THEN -7 ELSE -8
      [] tz = "Asia/Tokyo" -> 9
      [] OTHER -> 0

\* floor division by 24, also for negative hours
FloorDay(h) == IF h >= 0 THEN h \div 24 ELSE -((23 - h) \div 24)

\* datetime.now(tz).date(): the calendar date the zone's wall clock shows
LocalDateUtc(tz, inst) == inst.date

LocalDate(tz, inst) == DateAdd(inst.date, FloorDay(inst.hour + ZoneOffset(tz, inst)))

\* days from tomorrow to week_end
WeekSpan == 6

NoDate == Date(0, 0, 0)

NoWindow == [tmrw |-> NoDate, wend |-> NoDate]

ComputeDatesUtc(tz_name, inst) ==
    LET tomorrow == DateAdd(LocalDateUtc(tz_name, inst), 1)
    IN  [tmrw |-> tomorrow, wend |-> DateAdd(tomorrow, WeekSpan)]

\* compute_dates(tz_name); ZoneInfo raises for a zone it does not know,
\* which callers test with tz_name \in KnownZones before calling
compute_dates(tz_name, inst) ==
    LET today_local == LocalDate(tz_name, inst)
        tomorrow == DateAdd(today_local, 1)
        week_end == DateAdd(tomorrow, WeekSpan)
    IN  [tmrw |-> tomorrow, wend |-> week_end]

----------------------------------------------------------------------------
(* Tables: the response body read by pandas, the DataFrame returned by     *)
(* fetch_days_csv, and the CSV files written from it.                      *)

need == {"datetime", "temp", "tempmin", "tempmax", "precip"}

OutCols == <<"date", "tavg", "tmin", "tmax", "prcp", "temp_range", "day", "is_rainy", "is_hot">>

Table(cols, rows) == [columns |-> cols, rows |-> rows]

NoDf == Table(<<>>, <<>>)

\* how much warmer than San Francisco a location is, in degrees Celsius
LocationBias(location) == IF location = "Izmir" THEN 8 ELSE 0

\* a Celsius temperature in the unit group asked for
InUnit(unit, c) ==
    CASE unit = "us" -> ((c * 9) \div 5) + 32
      [] unit = "base" -> c + 273
      [] OTHER -> c

\* one day as the endpoint reports it for a location and a unit group:
\* whole numbers fixed by the date and the location
RawRow(location, unit, dt) ==
    LET o == toordinal(dt)
        b == LocationBias(location)
    IN  [datetime |-> dt,
         temp     |-> InUnit(unit, 20 + (o % 5) + b),
         tempmin  |-> InUnit(unit, 12 + (o % 4) + b),
         tempmax  |-> InUnit(unit, 26 + (o % 6) + b),
         precip   |-> o % 3]

\* a file on disk: absent, or a header line followed by data lines; an
\* existing file with no header line is an empty (truncated) file
File(hdr, rows) == [exists |-> TRUE, header |-> hdr, rows |-> rows]

Absent == [exists |-> FALSE, header |-> <<>>, rows |-> <<>>]

Truncated == File(<<>>, <<>>)

Paths == {"yarin.csv", "week.csv"}

\* DataFrame.to_csv(path, index=False): the column names, then every row
to_csv(df) == File(df.columns, df.rows)

\* the header line write_placeholder writes
PlaceholderFile == File(OutCols, <<>>)

----------------------------------------------------------------------------
(* The retrying session: requests.Session with HTTPAdapter(max_retries =   *)
(* Retry(total, read, connect, status_forcelist, allowed_methods = GET)).  *)

\* _session_with_retry(total=4, ...)
RetryTotal == 4

\* preview = r.text[:400]
PreviewLen == 400

status_forcelist == {429, 500, 502, 503, 504}

\* urllib3 Retry.RETRY_AFTER_STATUS_CODES, honoured because
\* respect_retry_after_header is left at its default
RETRY_AFTER_STATUS_CODES == {413, 429, 503}

\* what one request meets: an HTTP response (status, Retry-After header
\* present or not, body text, body parsed as a table), a failure to connect
\* ("conn") or a failure while reading the response ("read")
Response(kind, status, retry_after, text, csv) ==
    [kind |-> kind, status |-> status, retry_after |-> retry_after,
     text |-> text, csv |-> csv]

RetryThree == [total |-> 3, read |-> 3, connect |-> 3, history |-> <<>>]

\* the Retry object every sess.get call starts from
session_with_retry ==
    [total |-> RetryTotal, read |-> RetryTotal, connect |-> RetryTotal,
     history |-> <<>>]

IsRetryAnyError(r, resp) == resp.status >= 400

\* Retry.is_retry(method = GET, status_code, has_retry_after)
is_retry(r, resp) ==
    \/ resp.status \in status_forcelist
    \/ r.total /= 0 /\ resp.retry_after /\ resp.status \in RETRY_AFTER_STATUS_CODES

\* Retry.increment: one retry is spent, of the kind the failure has
increment(r, resp) ==
    [total   |-> r.total - 1,
     connect |-> IF resp.kind = "conn" THEN r.connect - 1 ELSE r.connect,
     read    |-> IF resp.kind = "read" THEN r.read - 1 ELSE r.read,
     history |-> Append(r.history, [kind |-> resp.kind, status |-> resp.status,
                                    retry_after |-> resp.retry_after])]

\* Retry.is_exhausted
is_exhausted(r) == Min(r.total, Min(r.connect, r.read)) < 0

\* one pass of urlopen inside sess.get, after the request got `resp`:
\* "retry" sends the request again, "raise" is retry exhaustion as requests
\* reports it, "return" hands the response to fetch_days_csv
urlopen(r, resp) ==
    IF resp.kind /= "http" \/ is_retry(r, resp)
    THEN IF is_exhausted(increment(r, resp))
         THEN [op |-> "raise", retry |-> increment(r, resp),
               exc |-> IF resp.kind = "http" THEN "RetryError" ELSE "ConnectionError"]
         ELSE [op |-> "retry", retry |-> increment(r, resp), exc |-> ""]
    ELSE [op |-> "return", retry |-> r, exc |-> ""]

----------------------------------------------------------------------------
(* fetch_days_csv: URL, status check, schema check, derived columns.       *)

BASE == "https://weather.visualcrossing.com/VisualCrossingWebServices/rest/services/timeline"

\* urllib.parse.quote on the locations of the model
quote(location) ==
    CASE location = "San Francisco,CA" -> "San%20Francisco%2CCA"
      [] location = "Izmir" -> "Izmir"
      [] OTHER -> location

\* the request line of fetch_days_csv
Url(api_key, location, start, end, unit) ==
    [base |-> BASE, location |-> quote(location), start |-> start, end |-> end,
     unitGroup |-> unit, include |-> "days",
     elements |-> <<"datetime", "temp", "tempmin", "tempmax", "precip">>,
     contentType |-> "csv", key |-> api_key]

\* an exception: its kind, and what its message carries
Err(kind, status, preview, miss, present) ==
    [kind |-> kind, status |-> status, preview |-> preview, miss |-> miss,
     present |-> present]

NoErr == Err("", 0, <<>>, {}, <<>>)

\* r.text[:400] if r.text else ""
Preview(text) == SubSeq(text, 1, Min(PreviewLen, Len(text)))

\* lines 66-81 on one row: rename, weekday name, range and the two flags
EnrichRowStrictlyHotter(row, hot_threshold) ==
    [date       |-> row.datetime,
     tavg       |-> row.temp,
     tmin       |-> row.tempmin,
     tmax       |-> row.tempmax,
     prcp       |-> row.precip,
     temp_range |-> row.tempmax - row.tempmin,
     day        |-> TR_DAYS[weekday(row.datetime)],
     is_rainy   |-> IF row.precip > 0 THEN 1 ELSE 0,
     is_hot     |-> IF row.tempmax > hot_threshold THEN 1 ELSE 0]

EnrichRow(row, hot_threshold) ==
    [date       |-> row.datetime,
     tavg       |-> row.temp,
     tmin       |-> row.tempmin,
     tmax       |-> row.tempmax,
     prcp       |-> row.precip,
     temp_range |-> row.tempmax - row.tempmin,
     day        |-> TR_DAYS[weekday(row.datetime)],
     is_rainy   |-> IF row.precip > 0 THEN 1 ELSE 0,
     is_hot     |-> IF row.tempmax >= hot_threshold THEN 1 ELSE 0]

MissAll(columns) == need

\* miss = need - set(df.columns)
Miss(columns) == need \ Range(columns)

ParseFirstRow(resp, hot_threshold) ==
    IF resp.csv.columns = <<>>
    THEN [ok |-> FALSE, df |-> NoDf,
          err |-> Err("EmptyDataError", resp.status, <<>>, {}, <<>>)]
    ELSE IF Miss(resp.csv.columns) /= {}
    THEN [ok |-> FALSE, df |-> NoDf,
          err |-> Err("SchemaError", resp.status, <<>>,
                      Miss(resp.csv.columns), resp.csv.columns)]
    ELSE [ok |-> TRUE, err |-> NoErr,
          df |-> Table(OutCols,
                       [i \in 1..Min(1, Len(resp.csv.rows)) |->
                           EnrichRow(resp.csv.rows[i], hot_threshold)])]

\* lines 60-81: the body of a response that passed raise_for_status
parse_body(resp, hot_threshold) ==
    IF resp.csv.columns = <<>>
    THEN [ok |-> FALSE, df |-> NoDf,
          err |-> Err("EmptyDataError", resp.status, <<>>, {}, <<>>)]
    ELSE IF Miss(resp.csv.columns) /= {}
    THEN [ok |-> FALSE, df |-> NoDf,
          err |-> Err("SchemaError", resp.status, <<>>,
                      Miss(resp.csv.columns), resp.csv.columns)]
    ELSE [ok |-> TRUE, err |-> NoErr,
          df |-> Table(OutCols,
                       [i \in 1..Len(resp.csv.rows) |->
                           EnrichRow(resp.csv.rows[i], hot_threshold)])]

\* lines 53-81: what fetch_days_csv makes of the response sess.get returned
fetch_days_csv(resp, hot_threshold) ==
    IF resp.status >= 400 /\ resp.status < 600
    THEN [ok |-> FALSE, df |-> NoDf,
          err |-> Err("HttpError", resp.status, Preview(resp.text), {}, <<>>)]
    ELSE parse_body(resp, hot_threshold)

----------------------------------------------------------------------------
(* The mocked endpoint: every answer a request of the model can meet.      *)

HeaderFull == <<"datetime", "tempmax", "tempmin", "temp", "precip">>

HeaderExtra == <<"name", "datetime", "temp", "tempmin", "tempmax", "precip">>

HeaderNoTemp == <<"datetime", "tempmin", "tempmax", "precip">>

HeaderNoTempPrecip == <<"tempmax", "feelslike", "datetime", "tempmin">>

BadHeaders == {HeaderNoTemp, HeaderNoTempPrecip}

\* a body row under header hdr for the day dt of the request url: one cell
\* per column
BodyRow(hdr, url, dt) ==
    [c \in Range(hdr) |->
        CASE c = "datetime" -> RawRow(url.location, url.unitGroup, dt).datetime
          [] c = "temp"     -> RawRow(url.location, url.unitGroup, dt).temp
          [] c = "tempmin"  -> RawRow(url.location, url.unitGroup, dt).tempmin
          [] c = "tempmax"  -> RawRow(url.location, url.unitGroup, dt).tempmax
          [] c = "precip"   -> RawRow(url.location, url.unitGroup, dt).precip
          [] OTHER          -> 0]

\* a body of n rows for the consecutive days from `first`
Body(hdr, url, first, n) ==
    Table(hdr, [i \in 1..n |-> BodyRow(hdr, url, DateAdd(first, i - 1))])

\* the body with no header line at all
EmptyBody == Table(<<>>, <<>>)

\* number of days of the inclusive range [start, end]
DaysIn(start, end) == toordinal(end) - toordinal(start) + 1

\* the body an endpoint honouring the requested range returns
HonestBody(hdr, url) == Body(hdr, url, url.start, DaysIn(url.start, url.end))

\* daily maxima the first day of a spell can have: the week that follows
\* rises by one degree a day, through freezing and through the thresholds
TmaxBases == {-5, -1, 27, 29}

\* a body of one row per day asked for, in a spell whose first maximum is
\* `base`: dry days, wet days and (as a sensor fault) negative precipitation
SpellBody(base, url) ==
    Table(HeaderFull,
          [i \in 1..DaysIn(url.start, url.end) |->
              [datetime |-> DateAdd(url.start, i - 1),
               tempmax  |-> base + i - 1,
               tempmin  |-> base + i - 9,
               temp     |-> base + i - 5,
               precip   |-> ((toordinal(url.start) + i) % 4) - 1]])

\* bodies of a 200 answer.  An "honest" endpoint returns one row per day
\* asked for; a "spells" endpoint does so for every spell; "any" endpoint
\* may also return too few or too many rows, rows for other days, a header
\* lacking columns, or nothing at all
MockBodies(mode, url) ==
    IF mode = "honest"
    THEN {HonestBody(HeaderFull, url)}
    ELSE IF mode = "spells"
    THEN {SpellBody(b, url) : b \in TmaxBases}
    ELSE {Body(HeaderFull, url, url.start, n) :
             n \in {0, 1, DaysIn(url.start, url.end), MaxRows}}
         \cup {HonestBody(HeaderExtra, url)}
         \cup {Body(HeaderFull, url, DateAdd(url.start, 1), DaysIn(url.start, url.end))}
         \cup {Body(h, url, url.start, 1) : h \in BadHeaders}
         \cup {EmptyBody}

\* the text of an error body of n characters
ErrText(n) == [i \in 1..n |-> i % 10]

Ok200(body) == Response("http", 200, FALSE, <<>>, body)

\* answers with a status of `statuses` (413 with and without Retry-After),
\* a body text of `texts`, and transport failures of `failures`
MockErrors(statuses, failures, texts) ==
    {Response("http", st, FALSE, t, EmptyBody) :
        st \in statuses \ status_forcelist, t \in texts}
    \cup {Response("http", st, FALSE, <<>>, EmptyBody) : st \in statuses \cap status_forcelist}
    \cup {Response("http", st, TRUE, <<>>, EmptyBody) : st \in statuses \cap {413}}
    \cup {Response(f, 0, FALSE, <<>>, EmptyBody) : f \in failures}

\* every answer the endpoint `srv` may give to the request `url`
Answers(srv, url) ==
    {Ok200(b) : b \in MockBodies(srv.bodies, url)}
    \cup MockErrors(srv.statuses, srv.failures, srv.texts)

Server(statuses, failures, texts, bodies) ==
    [statuses |-> statuses, failures |-> failures, texts |-> texts, bodies |-> bodies]

----------------------------------------------------------------------------
(* The command line and the environment: parse_args.                       *)

choices == {"metric", "us", "uk", "base"}

NoArgs == [unit |-> "", location |-> "", hot_threshold |-> 0, tz |-> "",
           no_placeholder |-> FALSE]

\* parse_args(): argparse checks `choices` on a value given on the command
\* line only; a default (here the WX_UNIT of the environment, else "metric")
\* is taken as it is.  An empty string stands for "not given" / "not set".
parse_args(e) ==
    IF e.argv_unit /= "" /\ e.argv_unit \notin choices
    THEN [ok |-> FALSE, args |-> NoArgs]
    ELSE [ok |-> TRUE,
          args |-> [unit |-> IF e.argv_unit /= "" THEN e.argv_unit
                             ELSE IF e.WX_UNIT /= "" THEN e.WX_UNIT ELSE "metric",
                    location |-> e.location,
                    hot_threshold |-> e.hot,
                    tz |-> e.tz,
                    no_placeholder |-> e.no_placeholder]]

----------------------------------------------------------------------------
(* State of a run, and how it ends.                                        *)

Running == [code |-> -1, err |-> NoErr]

\* the st.cache_data store when it holds nothing
NoCache == [valid |-> FALSE, key |-> <<>>, time |-> 0, t |-> NoDf, w |-> NoDf]

Exit(code, err) == [code |-> code, err |-> err]

\* a complete file left by an earlier run
OldFile == File(OutCols, <<EnrichRow(RawRow("Izmir", "metric", Date(2024, 1, 1)), 30)>>)

\* the spec's example: 10:00 in Los Angeles on 2024-06-10
ExampleNow == Instant(Date(2024, 6, 10), 17)

\* instants the clock may show: the example, an evening when UTC is a day
\* ahead of Los Angeles, the turn of the year and the leap day
Instants ==
    {ExampleNow, Instant(Date(2024, 6, 11), 3),
     Instant(Date(2024, 12, 31), 20), Instant(Date(2024, 2, 28), 23)}

\* command lines and environments: runs without key (with and without
\* --no-placeholder, units U on the command line) and runs with key (units
\* U on the command line, W in WX_UNIT, zones Z)
Envs(U, W, Z) ==
    [key : {""}, no_placeholder : BOOLEAN, argv_unit : U, WX_UNIT : {""},
     tz : {"America/Los_Angeles"}, location : {"San Francisco,CA"}, hot : {30}]
    \cup
    [key : {"K1"}, no_placeholder : {FALSE}, argv_unit : U, WX_UNIT : W,
     tz : Z, location : {"San Francisco,CA"}, hot : {30}]

\* a process at the step `start`, with environment and command line in E,
\* at an instant of I, against an endpoint of S
InitAt(start, E, I, S) ==
    /\ pc = start
    /\ env \in E
    /\ args = NoArgs
    /\ now \in I
    /\ window = NoWindow
    /\ retry = session_with_retry
    /\ reqs = <<>>
    /\ df_t = NoDf
    /\ df_w = NoDf
    /\ files \in {[p \in Paths |-> Absent], [p \in Paths |-> OldFile]}
    /\ files0 = files
    /\ exit = Running
    /\ server \in S
    /\ resps = <<>>
    /\ cache = NoCache
    /\ clock = 0

\* a run of run_cli from its first line
InitWith(E, I, S) == InitAt("parse_args", E, I, S)

\* runs of the pipeline: with and without key, units from the command line
\* and from WX_UNIT, a known and an unknown zone; the endpoint answers 200
\* with any body, 404, or 503
Init ==
    InitWith(Envs({"", "us", "kelvin"}, {"", "uk", "kelvin"},
                  {"America/Los_Angeles", "Mars/Olympus"}),
             {ExampleNow},
             {Server({404, 503}, {}, {ErrText(3)}, "any")})

----------------------------------------------------------------------------
(* run_cli, one action per step.                                           *)

\* line 203: args = parse_args(); argparse exits with status 2 on a bad value
ParseArgs ==
    /\ pc = "parse_args"
    /\ IF parse_args(env).ok
       THEN /\ args' = parse_args(env).args
            /\ pc' = "check_key"
            /\ exit' = exit
       ELSE /\ args' = args
            /\ pc' = "exit"
            /\ exit' = Exit(2, Err("ArgumentError", 0, <<>>, {}, <<>>))
    /\ UNCHANGED <<env, now, window, retry, reqs, df_t, df_w, files, files0, server, resps, cache, clock>>

\* lines 205-208: no key and --no-placeholder
MissingKeyExit ==
    /\ pc = "check_key"
    /\ env.key = ""
    /\ args.no_placeholder
    /\ pc' = "exit"
    /\ exit' = Exit(1, Err("CredentialError", 0, <<>>, {}, <<>>))
    /\ UNCHANGED <<env, args, now, window, retry, reqs, df_t, df_w, files, files0, server, resps, cache, clock>>

WritePlaceholderYarinOnly(fs) == [fs EXCEPT !["yarin.csv"] = PlaceholderFile]

\* write_placeholder(outdir): the header line into both files
write_placeholder(fs) == [p \in Paths |-> PlaceholderFile]

\* lines 205, 209-212: no key, placeholders written, return 0
WritePlaceholder ==
    /\ pc = "check_key"
    /\ env.key = ""
    /\ ~args.no_placeholder
    /\ files' = write_placeholder(files)
    /\ pc' = "exit"
    /\ exit' = Exit(0, NoErr)
    /\ UNCHANGED <<env, args, now, window, retry, reqs, df_t, df_w, files0, server, resps, cache, clock>>

\* lines 214-216: the session and the date window; ZoneInfo raises on an
\* unknown zone name
ComputeDates ==
    /\ pc = "check_key"
    /\ env.key /= ""
    /\ IF args.tz \in KnownZones
       THEN /\ window' = compute_dates(args.tz, now)
            /\ pc' = "fetch_t"
            /\ exit' = exit
       ELSE /\ window' = window
            /\ pc' = "exit"
            /\ exit' = Exit(1, Err("ZoneInfoNotFoundError", 0, <<>>, {}, <<>>))
    /\ retry' = session_with_retry
    /\ UNCHANGED <<env, args, now, reqs, df_t, df_w, files, files0, server, resps, cache, clock>>

AfterExceptionContinue(next) == next

\* lines 218-224: run_cli catches nothing, so an exception raised by
\* fetch_days_csv ends the run instead of reaching the step `next`
AfterException(next) == "exit"

\* one request of a fetch_days_csv call for [start, end] and what follows
\* from its answer `resp`: another request, or the end of the call with a
\* DataFrame (then pc becomes `next`) or with an exception (then `onerr`);
\* r is the Retry object the request is sent under
Fetch(r, start, end, resp, next, onerr) ==
    LET u == urlopen(r, resp)
        out == fetch_days_csv(resp, args.hot_threshold)
    IN  /\ reqs' = Append(reqs, Url(env.key, args.location, start, end, args.unit))
        /\ retry' = u.retry
        /\ resps' = IF u.op = "return" THEN Append(resps, resp) ELSE resps
        /\ CASE u.op = "retry" ->
                  /\ pc' = pc
                  /\ exit' = exit
                  /\ UNCHANGED <<df_t, df_w>>
             [] u.op = "raise" ->
                  /\ pc' = onerr
                  /\ exit' = Exit(1, Err(u.exc, resp.status, <<>>, {}, <<>>))
                  /\ UNCHANGED <<df_t, df_w>>
             [] OTHER ->
                  IF out.ok
                  THEN /\ pc' = next
                       /\ exit' = exit
                       /\ IF start = end
                          THEN df_t' = out.df /\ df_w' = df_w
                          ELSE df_w' = out.df /\ df_t' = df_t
                  ELSE /\ pc' = onerr
                       /\ exit' = Exit(1, out.err)
                       /\ UNCHANGED <<df_t, df_w>>
        /\ UNCHANGED <<env, args, now, window, files, files0, server>>

\* line 218: df_t = fetch_days_csv(..., tmrw, tmrw, ...)
FetchTomorrow ==
    /\ pc = "fetch_t"
    /\ \E resp \in Answers(server, Url(env.key, args.location, window.tmrw, window.tmrw,
                                       args.unit)) :
          Fetch(retry, window.tmrw, window.tmrw, resp, "write_t",
                AfterException("write_t"))
    /\ UNCHANGED <<cache, clock>>

\* line 219: df_t.to_csv(p1)
WriteTomorrow ==
    /\ pc = "write_t"
    /\ files' = [files EXCEPT !["yarin.csv"] = to_csv(df_t)]
    /\ pc' = "fetch_w"
    /\ retry' = session_with_retry
    /\ UNCHANGED <<env, args, now, window, reqs, df_t, df_w, files0, exit, server, resps, cache, clock>>

\* line 222: df_w = fetch_days_csv(..., tmrw, wend, ...)
FetchWeek ==
    /\ pc = "fetch_w"
    /\ \E resp \in Answers(server, Url(env.key, args.location, window.tmrw, window.wend,
                                       args.unit)) :
          Fetch(retry, window.tmrw, window.wend, resp, "write_w",
                AfterException("write_w"))
    /\ UNCHANGED <<cache, clock>>

\* lines 223-233: df_w.to_csv(p2), the previews, return 0
WriteWeek ==
    /\ pc = "write_w"
    /\ files' = [files EXCEPT !["week.csv"] = to_csv(df_w)]
    /\ pc' = "exit"
    /\ exit' = Exit(0, NoErr)
    /\ UNCHANGED <<env, args, now, window, retry, reqs, df_t, df_w, files0, server, resps, cache, clock>>

Next ==
    \/ ParseArgs
    \/ MissingKeyExit
    \/ WritePlaceholder
    \/ ComputeDates
    \/ FetchTomorrow
    \/ WriteTomorrow
    \/ FetchWeek
    \/ WriteWeek

Spec == Init /\ [][Next]_vars

----------------------------------------------------------------------------
(* Properties of a pipeline run (specification Spec).                      *)

Ended == pc = "exit"

\* the run got past parse_args: its command line was accepted
Accepted == pc /= "parse_args" /\ exit.code /= 2

NineColumnHeader ==
    <<"date", "tavg", "tmin", "tmax", "prcp", "temp_range", "day", "is_rainy", "is_hot">>

HeaderOnly(f) == f.exists /\ f.header = NineColumnHeader /\ f.rows = <<>>

\* C2: without an API key a run whose command line was accepted sends no
\* HTTP request and ends in one of two ways: with placeholders enabled it
\* returns 0 and both yarin.csv and week.csv hold exactly the nine-column
\* header and no data row; with --no-placeholder it fails with the missing
\* key error and leaves both files as they were.
C2_NoCredentialOutcomes ==
    (env.key = "" /\ Accepted) =>
        /\ reqs = <<>>
        /\ Ended =>
             \/ /\ ~env.no_placeholder
                /\ exit.code = 0
                /\ \A p \in Paths : HeaderOnly(files[p])
             \/ /\ env.no_placeholder
                /\ exit.code = 1
                /\ exit.err.kind = "CredentialError"
                /\ files = files0

\* a run without key ended after replacing two older files by placeholders
C2_Witness ==
    /\ Ended /\ env.key = "" /\ ~env.no_placeholder /\ exit.code = 0
    /\ files0["yarin.csv"] = OldFile
    /\ HeaderOnly(files["yarin.csv"]) /\ HeaderOnly(files["week.csv"])

\* the response the tomorrow fetch / the week fetch was handed, if any
GotTomorrow == Len(resps) >= 1 /\ df_t /= NoDf

GotWeek == Len(resps) >= 2 /\ df_w /= NoDf

\* rows dated first, first + 1, ... , first + n - 1
Spans(rows, first, n) ==
    /\ Len(rows) = n
    /\ \A i \in 1..Len(rows) : rows[i].date = DateAdd(first, i - 1)

\* the body holds exactly one row per day of [start, end], in order
OneRowPerDay(body, start, end) ==
    /\ Len(body.rows) = toordinal(end) - toordinal(start) + 1
    /\ \A i \in 1..Len(body.rows) : body.rows[i].datetime = DateAdd(start, i - 1)

\* C3 as claimed: once a run has written its outputs, week.csv holds exactly
\* 7 rows spanning tomorrow .. tomorrow + 6 and yarin.csv exactly 1 row,
\* whatever body the endpoint returned.
C3_AlwaysSevenAndOne ==
    (Ended /\ exit.code = 0 /\ env.key /= "") =>
        /\ Spans(files["week.csv"].rows, window.tmrw, 7)
        /\ Len(files["yarin.csv"].rows) = 1

\* C3 amended: a file written after a successful fetch holds one row per
\* data row of the response body, in the body's order and with its dates;
\* so week.csv holds exactly 7 rows spanning tomorrow .. tomorrow + 6, and
\* yarin.csv exactly 1 row dated tomorrow, whenever the endpoint answered
\* with one row per day of the range requested.
C3_RowsFollowBody ==
    /\ (GotTomorrow /\ pc \in {"fetch_w", "write_w", "exit"}) =>
          /\ Len(files["yarin.csv"].rows) = Len(resps[1].csv.rows)
          /\ \A i \in 1..Len(resps[1].csv.rows) :
                files["yarin.csv"].rows[i].date = resps[1].csv.rows[i].datetime
          /\ OneRowPerDay(resps[1].csv, window.tmrw, window.tmrw)
                => Spans(files["yarin.csv"].rows, window.tmrw, 1)
    /\ (GotWeek /\ Ended) =>
          /\ Len(files["week.csv"].rows) = Len(resps[2].csv.rows)
          /\ \A i \in 1..Len(resps[2].csv.rows) :
                files["week.csv"].rows[i].date = resps[2].csv.rows[i].datetime
          /\ OneRowPerDay(resps[2].csv, window.tmrw, DateAdd(window.tmrw, 6))
                => Spans(files["week.csv"].rows, window.tmrw, 7)

\* a finished run whose endpoint answered both fetches day by day
C3_Witness ==
    /\ Ended /\ exit.code = 0 /\ GotTomorrow /\ GotWeek
    /\ OneRowPerDay(resps[1].csv, window.tmrw, window.tmrw)
    /\ OneRowPerDay(resps[2].csv, window.tmrw, DateAdd(window.tmrw, 6))
    /\ Len(files["week.csv"].rows) = 7
    /\ Len(files["yarin.csv"].rows) = 1

\* C4: in a run with a key, when the tomorrow fetch fails no request for
\* the week range is ever sent and both files stay as they were at the
\* start; when the week fetch fails week.csv stays as it was; either way
\* the run ends in failure.
C4_AbortOnFirstError ==
    /\ (Ended /\ env.key /= "" /\ reqs /= <<>> /\ df_t = NoDf) =>
          /\ \A i \in 1..Len(reqs) : reqs[i].end = window.tmrw
          /\ files = files0
          /\ exit.code = 1
    /\ (Ended /\ df_t /= NoDf /\ df_w = NoDf) =>
          /\ files["week.csv"] = files0["week.csv"]
          /\ exit.code = 1
    /\ (~Ended /\ df_t = NoDf) => files = files0

\* a run that wrote yarin.csv, then failed in the week fetch, over old files
C4_Witness ==
    /\ Ended /\ df_t /= NoDf /\ df_w = NoDf /\ exit.code = 1
    /\ files0["week.csv"] = OldFile
    /\ Len(reqs) >= 2 /\ reqs[Len(reqs)].end /= window.tmrw

FiveRequired == {"datetime", "temp", "tempmin", "tempmax", "precip"}

\* the last response handed to fetch_days_csv has status 200 and a header
\* line that lacks a required column
LacksColumn ==
    /\ resps /= <<>>
    /\ resps[Len(resps)].status = 200
    /\ resps[Len(resps)].csv.columns /= <<>>
    /\ ~(FiveRequired \subseteq Range(resps[Len(resps)].csv.columns))

C8_UnitAlwaysValidated ==
    \A i \in 1..Len(reqs) : reqs[i].unitGroup \in {"metric", "us", "uk", "base"}

----------------------------------------------------------------------------
(* The date window (specification SpecDates): runs in several zones at     *)
(* several instants, against an endpoint that answers day by day or 404.   *)

InitDates ==
    InitWith(Envs({"", "kelvin"}, {""}, KnownZones \cup {"Mars/Olympus"}),
             Instants,
             {Server({404}, {}, {ErrText(3)}, "honest")})

SpecDates == InitDates /\ [][Next]_vars

\* hours since the start of ordinal day 0 on the zone's wall clock
LocalHours == toordinal(now.date) * 24 + now.hour + ZoneOffset(args.tz, now)

IsCalendarDate(dt) ==
    /\ dt.m \in 1..12
    /\ dt.d >= 1
    /\ dt.d <= (IF dt.m = 2 THEN (IF dt.y % 4 = 0 /\ (dt.y % 100 /= 0 \/ dt.y % 400 = 0)
                                  THEN 29 ELSE 28)
                ELSE IF dt.m \in {4, 6, 9, 11} THEN 30 ELSE 31)

\* C10: compute_dates returns tomorrow = the day after the calendar day the
\* zone's wall clock shows now (not the UTC day), and week_end = tomorrow
\* + 6 days; at 10:00 in Los Angeles on 2024-06-10 that is 2024-06-11 and
\* 2024-06-17.  The tomorrow fetch asks for [tomorrow, tomorrow] and the
\* week fetch for [tomorrow, week_end].
C10_DateWindow ==
    /\ window /= NoWindow =>
          /\ IsCalendarDate(window.tmrw) /\ IsCalendarDate(window.wend)
          /\ (toordinal(window.tmrw) - 1) * 24 <= LocalHours
          /\ LocalHours < toordinal(window.tmrw) * 24
          /\ toordinal(window.wend) = toordinal(window.tmrw) + 6
    /\ (window /= NoWindow /\ args.tz = "America/Los_Angeles"
           /\ now = [date |-> [y |-> 2024, m |-> 6, d |-> 10], hour |-> 17]) =>
          /\ window.tmrw = [y |-> 2024, m |-> 6, d |-> 11]
          /\ window.wend = [y |-> 2024, m |-> 6, d |-> 17]
    /\ \A i \in 1..Len(reqs) :
          reqs[i].start = window.tmrw /\ reqs[i].end \in {window.tmrw, window.wend}
    /\ (df_t = NoDf \/ pc = "write_t") =>
          \A i \in 1..Len(reqs) : reqs[i].end = window.tmrw
    /\ (pc = "write_w" \/ (Ended /\ df_t /= NoDf)) =>
          reqs[Len(reqs)].end = window.wend

\* an evening run in Los Angeles, when the UTC date is already the next day:
\* on 2024-06-10 at 20:00 local both fetches were made for the local window
C10_Witness ==
    /\ Ended /\ exit.code = 0
    /\ args.tz = "America/Los_Angeles"
    /\ now = Instant(Date(2024, 6, 11), 3)
    /\ window = [tmrw |-> Date(2024, 6, 11), wend |-> Date(2024, 6, 17)]
    /\ Len(reqs) = 2
    /\ reqs[1].end = Date(2024, 6, 11) /\ reqs[2].end = Date(2024, 6, 17)

----------------------------------------------------------------------------
(* The retry policy (specification SpecRetry): runs against an endpoint    *)
(* that answers day by day, or 404, 413, 429, 503, or fails to connect or  *)
(* to deliver the response.                                                *)

ErrTexts == {ErrText(n) : n \in {0, PreviewLen, PreviewLen + MaxOverflow}}

InitRetry ==
    InitWith(Envs({"", "kelvin"}, {""}, {"America/Los_Angeles", "Mars/Olympus"}),
             {ExampleNow},
             {Server({404, 413, 429, 503}, {"conn", "read"}, ErrTexts, "honest")})

SpecRetry == InitRetry /\ [][Next]_vars

\* the sess.get call in progress, or just finished, met only 503 answers
\* before the present one, n of them
After503s(n) ==
    /\ Len(retry.history) = n
    /\ \A i \in 1..Len(retry.history) :
          retry.history[i].kind = "http" /\ retry.history[i].status = 503

\* the call just finished by handing a 200 answer to fetch_days_csv
Returned200 ==
    /\ pc \in {"write_t", "write_w"}
    /\ resps /= <<>> /\ resps[Len(resps)].status = 200

\* C1 as claimed: the budget is 4 attempts in total, so a fourth
\* consecutive 503 raises and no fifth request is sent.
C1_FourAttemptsTotal ==
    After503s(4) => (Ended /\ exit.code = 1 /\ exit.err.status = 503)

\* C1 amended: Retry(total=4) allows 4 retries, 5 attempts in total, on
\* status codes {429, 500, 502, 503, 504}: after three or four 503 answers
\* a 200 answer ends the call in success; a fifth consecutive 503 raises
\* the retry error of requests, and no call sends a sixth request.
C1_FiveAttemptsTotal ==
    /\ \A n \in 0..4 : After503s(n) => ~(Ended /\ exit.err.status = 503)
    /\ (Len(resps) >= 1 /\ resps[1].status = 200) => df_t /= NoDf
    /\ (Len(resps) >= 2 /\ resps[2].status = 200) => df_w /= NoDf
    /\ After503s(5) =>
          (Ended /\ exit.code = 1 /\ exit.err.kind = "RetryError" /\ exit.err.status = 503)
    /\ Len(retry.history) <= 5
    /\ Len(retry.history) = 5 => Ended
    /\ ((df_t = NoDf \/ pc = "write_t") => Len(reqs) <= 5)
    /\ Len(reqs) <= 10

\* the fifth request of the tomorrow fetch was answered 200 after four 503
C1_Witness ==
    /\ After503s(4) /\ Returned200 /\ pc = "write_t" /\ Len(reqs) = 5 /\ df_t /= NoDf

\* C6 as claimed: only answers with a status of {429, 500, 502, 503, 504}
\* are ever retried; every other failure, a connection or read failure
\* included, ends the call after one attempt.
C6_OnlyForcelistRetried ==
    \A i \in 1..Len(retry.history) :
        /\ retry.history[i].kind = "http"
        /\ retry.history[i].status \in {429, 500, 502, 503, 504}

\* C6 amended: what is retried, within the one budget of 4 retries, is an
\* answer with a status of {429, 500, 502, 503, 504}, an answer with status
\* 413 (or 429, 503) that carries a Retry-After header, and a connection or
\* read failure.  Any other answer with a 4xx/5xx status ends the call at
\* once, without another request, as the HTTP error carrying the status
\* code and the first 400 characters of the body.  Retries exhausted on a
\* status raise the retry error, exhausted on a connection or read failure
\* the connection error; neither carries a body preview.
C6_RetryConfinement ==
    /\ \A i \in 1..Len(retry.history) :
          \/ retry.history[i].kind \in {"conn", "read"}
          \/ retry.history[i].status \in {429, 500, 502, 503, 504}
          \/ retry.history[i].status \in {413, 429, 503} /\ retry.history[i].retry_after
    /\ Len(retry.history) <= 5
    /\ (Ended /\ exit.err.kind = "HttpError") =>
          /\ exit.code = 1
          /\ resps /= <<>>
          /\ exit.err.status = resps[Len(resps)].status
          /\ exit.err.status \notin {429, 500, 502, 503, 504}
          /\ Len(exit.err.preview) =
                (IF Len(resps[Len(resps)].text) < 400
                 THEN Len(resps[Len(resps)].text) ELSE 400)
          /\ \A i \in 1..Len(exit.err.preview) :
                exit.err.preview[i] = resps[Len(resps)].text[i]
    /\ (resps /= <<>> /\ resps[Len(resps)].status >= 400) =>
          (Ended /\ exit.err.kind = "HttpError")
    /\ (Ended /\ Len(retry.history) = 5) =>
          /\ exit.err.preview = <<>>
          /\ exit.err.kind =
                (IF retry.history[5].kind = "http" THEN "RetryError" ELSE "ConnectionError")

\* a 404 with a body of 401 characters ended the tomorrow fetch on its
\* first request, with a preview of 400 characters
C6_Witness ==
    /\ Ended /\ exit.err.kind = "HttpError" /\ exit.err.status = 404
    /\ Len(reqs) = 1 /\ retry.history = <<>>
    /\ Len(resps[1].text) = 401 /\ Len(exit.err.preview) = 400

----------------------------------------------------------------------------
(* Writes that stop part-way (specification SpecIO).  to_csv and            *)
(* write_placeholder open the destination itself with mode "w": the file is *)
(* emptied first and its lines follow, so a write that fails (OSError) or   *)
(* is cancelled (KeyboardInterrupt) leaves the lines written so far.        *)

\* what a write of the file f leaves when it stops after n of f's lines
Partial(f, n) ==
    IF n = 0 THEN Truncated ELSE File(f.header, SubSeq(f.rows, 1, n - 1))

\* the numbers of lines after which a write of f can stop short of f
Cuts(f) == 0..Len(f.rows)

\* the exception of a write that stops part-way ends the run: run_cli does
\* not catch it
WriteFailed == Exit(1, Err("OSError", 0, <<>>, {}, <<>>))

\* line 219: df_t.to_csv(p1) stops part-way
WriteTomorrowInterrupted ==
    /\ pc = "write_t"
    /\ \E n \in Cuts(to_csv(df_t)) :
          files' = [files EXCEPT !["yarin.csv"] = Partial(to_csv(df_t), n)]
    /\ pc' = "exit"
    /\ exit' = WriteFailed
    /\ UNCHANGED <<env, args, now, window, retry, reqs, df_t, df_w, files0, server,
                   resps, cache, clock>>

\* line 223: df_w.to_csv(p2) stops part-way; yarin.csv was written before
WriteWeekInterrupted ==
    /\ pc = "write_w"
    /\ \E n \in Cuts(to_csv(df_w)) :
          files' = [files EXCEPT !["week.csv"] = Partial(to_csv(df_w), n)]
    /\ pc' = "exit"
    /\ exit' = WriteFailed
    /\ UNCHANGED <<env, args, now, window, retry, reqs, df_t, df_w, files0, server,
                   resps, cache, clock>>

\* lines 86-87: write_placeholder stops at the first file, or at the second
\* after the first was written
WritePlaceholderInterrupted ==
    /\ pc = "check_key"
    /\ env.key = ""
    /\ ~args.no_placeholder
    /\ \/ files' = [files EXCEPT !["yarin.csv"] = Partial(PlaceholderFile, 0)]
       \/ files' = [files EXCEPT !["yarin.csv"] = PlaceholderFile,
                                 !["week.csv"] = Partial(PlaceholderFile, 0)]
    /\ pc' = "exit"
    /\ exit' = WriteFailed
    /\ UNCHANGED <<env, args, now, window, retry, reqs, df_t, df_w, files0, server,
                   resps, cache, clock>>

InitIO ==
    InitWith(Envs({"", "kelvin"}, {""}, {"America/Los_Angeles", "Mars/Olympus"}),
             {ExampleNow},
             {Server({404, 503}, {}, {ErrText(3)}, "honest")})

NextIO ==
    \/ Next
    \/ WriteTomorrowInterrupted
    \/ WriteWeekInterrupted
    \/ WritePlaceholderInterrupted

SpecIO == InitIO /\ [][NextIO]_vars

\* the complete files the run can be writing to the path p: the table it
\* fetched for p, or the placeholder when it has no key
CompleteFiles(p) ==
    (IF env.key = "" THEN {PlaceholderFile} ELSE {})
    \cup (IF p = "yarin.csv" /\ df_t /= NoDf THEN {to_csv(df_t)} ELSE {})
    \cup (IF p = "week.csv" /\ df_w /= NoDf THEN {to_csv(df_w)} ELSE {})

\* C5: at every point of a run, a write that stops part-way included, each of
\* yarin.csv and week.csv is absent, unchanged from its content before the
\* run, or a complete file: the full header and all rows of the table being
\* written
C5_AllOrNothing ==
    \A p \in Paths :
        \/ files[p] = Absent
        \/ files[p] = files0[p]
        \/ files[p] \in CompleteFiles(p)

----------------------------------------------------------------------------
(* run_streamlit (specification SpecCache): one session of the page.  Each *)
(* click reruns the script with the widgets' values; the store of          *)
(* st.cache_data outlives the reruns.                                      *)

\* ttl=60*15 of st.cache_data, in seconds
CacheTtl == 900

\* seconds between two looks at the clock, and how many the session lasts
TickSeconds == 300

MaxTicks == 3

\* the parameters of _run_fetch_cached; st.cache_data leaves a parameter
\* whose name starts with an underscore out of the key
CachedParams ==
    <<[name |-> "_api_key", underscore |-> TRUE],
      [name |-> "_location", underscore |-> TRUE],
      [name |-> "_unit", underscore |-> TRUE],
      [name |-> "_hot_thr", underscore |-> TRUE],
      [name |-> "_tz_name", underscore |-> TRUE]>>

\* the argument the call of line 163 passes for a parameter
CallArg(cfg, name) ==
    CASE name = "_api_key"  -> env.key
      [] name = "_location" -> cfg.location
      [] name = "_unit"     -> cfg.unit
      [] name = "_hot_thr"  -> cfg.hot_threshold
      [] OTHER              -> cfg.tz

\* the key st.cache_data looks the call up under: the hashed arguments
CacheKey(cfg) ==
    [n \in {q.name : q \in {x \in Range(CachedParams) : ~x.underscore}} |->
        CallArg(cfg, n)]

\* the store holds a result for the call that is younger than the ttl
CacheHit(cfg) ==
    /\ cache.valid
    /\ cache.key = CacheKey(cfg)
    /\ clock - cache.time < CacheTtl

\* values of the sidebar widgets: the defaults, and the defaults with
\* another location, unit group, hot threshold or time zone
DefaultWidgets ==
    [unit |-> "metric", location |-> "San Francisco,CA", hot_threshold |-> 30,
     tz |-> "America/Los_Angeles", no_placeholder |-> FALSE]

Widgets ==
    {DefaultWidgets,
     [DefaultWidgets EXCEPT !.location = "Izmir"],
     [DefaultWidgets EXCEPT !.unit = "us"],
     [DefaultWidgets EXCEPT !.hot_threshold = 28],
     [DefaultWidgets EXCEPT !.tz = "Asia/Tokyo"]}

\* lines 104-136 of a rerun: the widgets are read, the date window computed;
\* nothing of the rerun before is left but the files and the cache
Rerun(cfg) ==
    /\ args' = cfg
    /\ window' = compute_dates(cfg.tz, now)
    /\ retry' = session_with_retry
    /\ reqs' = <<>>
    /\ resps' = <<>>
    /\ UNCHANGED <<env, now, files0, server, clock>>

\* lines 153-155: the placeholder button
ClickPlaceholder ==
    /\ pc = "st_idle"
    /\ \E cfg \in Widgets : Rerun(cfg)
    /\ files' = write_placeholder(files)
    /\ pc' = "st_idle"
    /\ exit' = Exit(0, NoErr)
    /\ df_t' = NoDf
    /\ df_w' = NoDf
    /\ UNCHANGED cache

\* lines 157-163: the fetch button.  Without key st.error and st.stop; with
\* key the call of _run_fetch_cached, answered from the store on a hit
ClickFetch ==
    /\ pc = "st_idle"
    /\ \E cfg \in Widgets :
          /\ Rerun(cfg)
          /\ IF env.key = ""
             THEN /\ pc' = "st_idle"
                  /\ exit' = Exit(1, Err("CredentialError", 0, <<>>, {}, <<>>))
                  /\ df_t' = NoDf
                  /\ df_w' = NoDf
             ELSE IF CacheHit(cfg)
                  THEN /\ pc' = "st_write"
                       /\ exit' = Running
                       /\ df_t' = cache.t
                       /\ df_w' = cache.w
                  ELSE /\ pc' = "st_fetch_t"
                       /\ exit' = Running
                       /\ df_t' = NoDf
                       /\ df_w' = NoDf
    /\ UNCHANGED <<files, cache>>

\* line 144 inside _run_fetch_cached; line 181 catches the exception
StFetchTomorrow ==
    /\ pc = "st_fetch_t"
    /\ \E resp \in Answers(server, Url(env.key, args.location, window.tmrw, window.tmrw,
                                       args.unit)) :
          Fetch(retry, window.tmrw, window.tmrw, resp, "st_fetch_w", "st_idle")
    /\ UNCHANGED <<cache, clock>>

\* the Retry object of the week's request: sess.get starts each call from
\* the adapter's max_retries
WeekRetry ==
    IF \A i \in 1..Len(reqs) : reqs[i].start = reqs[i].end
    THEN session_with_retry
    ELSE retry

\* line 145 and the return of line 146: st.cache_data stores the result
\* under the key of the call
StFetchWeek ==
    /\ pc = "st_fetch_w"
    /\ \E resp \in Answers(server, Url(env.key, args.location, window.tmrw, window.wend,
                                       args.unit)) :
          Fetch(WeekRetry, window.tmrw, window.wend, resp, "st_write", "st_idle")
    /\ cache' = IF pc' = "st_write"
                THEN [valid |-> TRUE, key |-> CacheKey(args), time |-> clock,
                      t |-> df_t', w |-> df_w']
                ELSE cache
    /\ UNCHANGED clock

\* lines 164-180: both files written from the result of the call; the
\* rerun ends and its locals with it
StWrite ==
    /\ pc = "st_write"
    /\ files' = [files EXCEPT !["yarin.csv"] = to_csv(df_t),
                              !["week.csv"] = to_csv(df_w)]
    /\ pc' = "st_idle"
    /\ exit' = Exit(0, NoErr)
    /\ retry' = session_with_retry
    /\ reqs' = <<>>
    /\ resps' = <<>>
    /\ df_t' = NoDf
    /\ df_w' = NoDf
    /\ UNCHANGED <<env, args, now, window, files0, server, cache, clock>>

\* time passes between two clicks
Tick ==
    /\ pc = "st_idle"
    /\ clock < MaxTicks * TickSeconds
    /\ clock' = clock + TickSeconds
    /\ UNCHANGED <<pc, env, args, now, window, retry, reqs, df_t, df_w, files, files0,
                   exit, server, resps, cache>>

\* a session with and without key, against an endpoint that answers 200
\* with one row per day asked for, 404, or 503
InitCache ==
    InitAt("st_idle",
           [key : {"", "K1"}, no_placeholder : {FALSE}, argv_unit : {""},
            WX_UNIT : {""}, tz : {"America/Los_Angeles"},
            location : {"San Francisco,CA"}, hot : {30}],
           {ExampleNow},
           {Server({404, 503}, {}, {ErrText(3)}, "honest")})

NextCache ==
    \/ ClickPlaceholder
    \/ ClickFetch
    \/ StFetchTomorrow
    \/ StFetchWeek
    \/ StWrite
    \/ Tick

SpecCache == InitCache /\ [][NextCache]_vars

\* the table a fetch for the widgets cfg and the days [start, end] makes of
\* the endpoint's answer, with no cache in between
DirectFetch(cfg, start, end) ==
    fetch_days_csv(Ok200(HonestBody(HeaderFull,
                                    Url(env.key, cfg.location, start, end, cfg.unit))),
                   cfg.hot_threshold).df

\* C9: the rows a fetch click gets for its widgets (location, unit group,
\* hot threshold, time zone), from the store or not, are the rows a direct
\* fetch with these widgets returns
C9_CacheTransparent ==
    pc = "st_write" =>
        /\ df_t = DirectFetch(args, compute_dates(args.tz, now).tmrw,
                              compute_dates(args.tz, now).tmrw)
        /\ df_w = DirectFetch(args, compute_dates(args.tz, now).tmrw,
                              compute_dates(args.tz, now).wend)

----------------------------------------------------------------------------
(* The flags of the derived columns (specification SpecFlags): runs with   *)
(* hot thresholds below, at and above freezing against an endpoint whose   *)
(* maxima pass through every threshold.                                    *)

\* --hot-threshold / HOT_THRESHOLD_C of the runs
HotThresholds == {-5, 0, 27, 30}

InitFlags ==
    InitWith({[e EXCEPT !.hot = h] :
                 e \in Envs({""}, {""}, {"America/Los_Angeles"}), h \in HotThresholds},
             {ExampleNow},
             {Server({404}, {}, {ErrText(3)}, "spells")})

SpecFlags == InitFlags /\ [][Next]_vars

\* the rows fetch_days_csv has returned to the run so far
ProducedRows ==
    (IF df_t = NoDf THEN {} ELSE Range(df_t.rows))
    \cup (IF df_w = NoDf THEN {} ELSE Range(df_w.rows))

\* C11: in every row fetch_days_csv produces, for every hot threshold,
\* is_rainy is 1 if prcp > 0 and 0 otherwise, and is_hot is 1 if
\* tmax >= hot threshold (tmax equal to the threshold included) and 0
\* otherwise
C11_Flags ==
    \A row \in ProducedRows :
        /\ row.is_rainy = (IF row.prcp > 0 THEN 1 ELSE 0)
        /\ row.is_hot = (IF row.tmax >= args.hot_threshold THEN 1 ELSE 0)
        /\ row.tmax = args.hot_threshold => row.is_hot = 1

\* a week was fetched that has a day at the threshold, a cooler and a hotter
\* day, a wet day, a dry day and a day of negative precipitation
C11_Witness ==
    /\ df_w /= NoDf
    /\ \E row \in Range(df_w.rows) : row.tmax = args.hot_threshold /\ row.is_hot = 1
    /\ \E row \in Range(df_w.rows) : row.tmax < args.hot_threshold /\ row.is_hot = 0
    /\ \E row \in Range(df_w.rows) : row.tmax > args.hot_threshold /\ row.is_hot = 1
    /\ \E row \in Range(df_w.rows) : row.prcp > 0 /\ row.is_rainy = 1
    /\ \E row \in Range(df_w.rows) : row.prcp = 0 /\ row.is_rainy = 0
    /\ \E row \in Range(df_w.rows) : row.prcp < 0 /\ row.is_rainy = 0

====
